---- MODULE Spec2Model ----
(***************************************************************************)
(* LZW compressor / decompressor of src/main.cpp.                          *)
(*                                                                         *)
(* compress reads chars and writes fixed-width codes; decompress reads     *)
(* codes and writes chars.  Both own a dictionary that is reset to the     *)
(* base alphabet when it holds globals::dms entries.                       *)
(*                                                                         *)
(* The program has 256 values of char and 65536 values of CodeType.  The   *)
(* model is parametric in both (CharValues, CodeTypeMax) and is checked    *)
(* for small code spaces, so that dictionary resets happen within short    *)
(* inputs: every numeric limit the code uses (numeric_limits<char>::min    *)
(* and max, numeric_limits<CodeType>::max) is derived from the two.        *)
(***************************************************************************)
EXTENDS Integers, Sequences, FiniteSets, TLC

\* ------------------------------------------------------------------ bounds
\* number of values of char (256 in the program)
CharValues == 2
\* numeric_limits<CodeType>::max() (65535 in the program)
CodeTypeMax == 5
\* longest input byte sequence given to compress
MaxLen == 8
\* longest arbitrary code stream given to decompress
MaxCodes == 6
\* largest number of command line arguments given to main
MaxArgc == 5

\* ------------------------------------------------------- program constants
\* sizeof (CodeType): bytes per code in the stream
CodeWidth == 2

VARIABLES
    signedChar,  \* platform: is plain char a signed type
    feed,        \* what decompress reads: "compress" (the codes written by
                 \* compress) or "arbitrary" (any byte stream)
    input,       \* bytes compress has read so far (unsigned values)
    edict,       \* compress: dictionary, (prefix code, char) -> code
    ei,          \* compress: i, the current match code
    epc,         \* compress: "off", "run", "done", "out_of_range"
    codes,       \* the complete codes of the code stream so far
    ebase,       \* compress: dictionary as the last reset_dictionary() left it
    eresets,     \* compress: for each reset, the number of codes written before it
    ddict,       \* decompress: dictionary, sequence of <<prefix code, char>>
    di,          \* decompress: i, the previous code
    dpos,        \* decompress: number of codes read
    dout,        \* decompress: bytes written (unsigned values)
    dpc,         \* decompress: "run", "done", "invalid_code", "corrupt",
                 \*   "out_of_range", "cycle", "crash"
    dbase,       \* decompress: dictionary as the last reset_dictionary() left it
    dresets,     \* decompress: for each reset, the number of codes read before it
    dself,       \* decompress: has the k == dictionary.size() branch run
    tail,        \* platform of the stream: bytes of a partial code after its
                 \* last complete code (0: it ends on a code boundary)
    ecover,      \* compress: the bytes denoted by the codes written so far,
                 \* each in the dictionary it was written from
    argc,        \* main: number of command line arguments (0: main not run)
    flag,        \* main: argv[1]
    mpc          \* main: "off", "start", "open", "compress", "decompress",
                 \*   "exit0", "exit1", "crash"

vars == <<signedChar, feed, input, edict, ei, epc, codes, ebase, eresets,
          ddict, di, dpos, dout, dpc, dbase, dresets, dself, tail,
          ecover, argc, flag, mpc>>

evars == <<input, edict, ei, epc, ebase, eresets, ecover>>
dvars == <<ddict, di, dpos, dout, dpc, dbase, dresets, dself, tail>>
mvars == <<argc, flag, mpc>>

\* ------------------------------------------------------------- code space
\* number of values of CodeType; conversions to CodeType reduce modulo it
CodeMod == CodeTypeMax + 1

\* globals::dms = numeric_limits<CodeType>::max()
dms == CodeTypeMax

\* number of chars reset_dictionary iterates over
AlphabetSize == CharValues

\* numeric_limits<char>::min(): the lower half of the values is negative
\* where char is signed
minc == IF signedChar THEN 0 - (CharValues \div 2) ELSE 0

\* numeric_limits<char>::max()
maxc == minc + CharValues - 1

Byte == 0 .. (AlphabetSize - 1)
Char == minc .. maxc
Code == 0 .. dms

\* is.get(c): the byte of the file as a value of plain char
ToChar(v) == IF v > maxc THEN v - CharValues ELSE v

\* os.write: the char as the byte of the file
ToByte(c) == IF c < 0 THEN c + CharValues ELSE c

\* static_cast<CodeType>(n) of a size
ToCodeType(n) == n % CodeMod

RECURSIVE Reverse(_)
Reverse(s) == IF s = <<>> THEN <<>> ELSE Append(Reverse(Tail(s)), Head(s))

RECURSIVE MapSeq(_, _)
MapSeq(s, acc) == IF s = <<>> THEN acc ELSE MapSeq(Tail(s), Append(acc, ToByte(Head(s))))

\* os.write(&s.front(), s.size()): the bytes appended to the output
WriteChars(out, s) == MapSeq(s, out)

\* --------------------------------------------------------------- compress
EmptyMap == [x \in {} |-> 0]

\* std::map::size()
MapSize(d) == Cardinality(DOMAIN d)

\* std::map::count(key) != 0
MapHas(d, key) == key \in DOMAIN d

\* dictionary[key] = v
MapPut(d, key, v) == [x \in (DOMAIN d) \cup {key} |-> IF x = key THEN v ELSE d[x]]

RECURSIVE EncResetLoop(_, _)
EncResetLoop(d, c) ==
    IF c > maxc THEN d
    ELSE EncResetLoop(MapPut(d, <<dms, c>>, ToCodeType(MapSize(d))), c + 1)

\* compress::reset_dictionary
EncResetDictionary == EncResetLoop(EmptyMap, minc)

\* mutant of EncFull: the capacity test as dictionary.size() > globals::dms
EncFullGreater(d) == MapSize(d) > dms

\* if (dictionary.size() == globals::dms) in compress
EncFull(d) == MapSize(d) = dms

\* mutant of NextCode: the code taken after the insertion
NextCodeAfter(d) == ToCodeType(MapSize(d) + 1)

\* const CodeType dictionary_size = dictionary.size(), the code of a new entry
NextCode(d) == ToCodeType(MapSize(d))

\* mutant of Restart: the match restarts empty, the char is lost
RestartClear(d, c) == dms

\* i = dictionary.at({globals::dms, c}) after a miss
Restart(d, c) == d[<<dms, c>>]

\* mutant of Flush: no final code
FlushNever(i, out) == out

\* mutant of Flush: the final code written whatever i is
FlushAlways(i, out) == Append(out, i)

\* if (i != globals::dms) os.write(i) at the end of compress
Flush(i, out) == IF i # dms THEN Append(out, i) ELSE out

\* the chars the code denotes in the dictionary d of compress: the chars of
\* its key's prefix code, then its key's char; a code that d does not hold
\* denotes no string (marked by a value that is no char)
RECURSIVE EncWalk(_, _, _)
EncWalk(d, code, fuel) ==
    IF code = dms THEN <<>>
    ELSE LET keys == {key \in DOMAIN d : d[key] = code}
         IN  IF keys = {} \/ fuel = 0 THEN <<maxc + 1>>
             ELSE LET key == CHOOSE x \in keys : TRUE
                  IN  Append(EncWalk(d, key[1], fuel - 1), key[2])

EncString(d, code) == EncWalk(d, code, MapSize(d))

\* one iteration of the while loop of compress, for the byte v
EncStep(v) ==
    /\ epc = "run"
    /\ Len(input) < MaxLen
    /\ LET c  == ToChar(v)
           rs == EncFull(edict)
           d0 == IF rs THEN EncResetDictionary ELSE edict
       IN  /\ input' = Append(input, v)
           /\ ebase' = IF rs THEN d0 ELSE ebase
           /\ eresets' = IF rs THEN Append(eresets, Len(codes)) ELSE eresets
           /\ IF ~MapHas(d0, <<ei, c>>)
              THEN /\ edict' = MapPut(d0, <<ei, c>>, NextCode(d0))
                   /\ codes' = Append(codes, ei)
                   /\ ecover' = WriteChars(ecover, EncString(d0, ei))
                   /\ IF MapHas(edict', <<dms, c>>)
                      THEN ei' = Restart(edict', c) /\ epc' = epc
                      ELSE ei' = ei /\ epc' = "out_of_range"
              ELSE /\ edict' = d0
                   /\ codes' = codes
                   /\ ecover' = ecover
                   /\ ei' = d0[<<ei, c>>]
                   /\ epc' = epc
    /\ UNCHANGED <<signedChar, feed, dvars, mvars>>

\* is.get(c) fails at end of file: the code after the loop of compress
EncEnd ==
    /\ epc = "run"
    /\ codes' = Flush(ei, codes)
    /\ ecover' = IF codes' # codes THEN WriteChars(ecover, EncString(edict, ei)) ELSE ecover
    /\ epc' = "done"
    /\ UNCHANGED <<signedChar, feed, input, edict, ei, ebase, eresets, dvars, mvars>>

\* ------------------------------------------------------------- decompress
RECURSIVE DecResetLoop(_, _)
DecResetLoop(d, c) ==
    IF c > maxc THEN d ELSE DecResetLoop(Append(d, <<dms, c>>), c + 1)

\* mutant of DecResetDictionary: the loop starts one char late
DecResetDictionaryLate == DecResetLoop(<<>>, minc + 1)

\* decompress::reset_dictionary
DecResetDictionary == DecResetLoop(<<>>, minc)

\* mutant of DecFull: the reset one entry early
DecFullEarly(d) == Len(d) = dms - 1

\* if (dictionary.size() == globals::dms) in decompress
DecFull(d) == Len(d) = dms

\* mutant of InvalidCode: k == dictionary.size() rejected too
InvalidCodeGe(k, d) == k >= Len(d)

\* if (k > dictionary.size())
InvalidCode(k, d) == k > Len(d)

\* the while loop of rebuild_string: dictionary.at(k) throws out_of_range
\* for k >= size; a walk of more than size links is in a cycle of prefix
\* links and never reaches globals::dms
RECURSIVE Walk(_, _, _, _)
Walk(d, k, s, fuel) ==
    IF k = dms THEN [st |-> "ok", s |-> s]
    ELSE IF k >= Len(d) THEN [st |-> "out_of_range", s |-> s]
    ELSE IF fuel = 0 THEN [st |-> "cycle", s |-> s]
    ELSE Walk(d, d[k + 1][1], Append(s, d[k + 1][2]), fuel - 1)

\* mutant of rebuild_string: the collected chars are not reversed
rebuild_string_unreversed(d, k) ==
    LET w == Walk(d, k, <<>>, Len(d)) IN [st |-> w.st, s |-> w.s]

\* decompress::rebuild_string
rebuild_string(d, k) ==
    LET w == Walk(d, k, <<>>, Len(d)) IN [st |-> w.st, s |-> Reverse(w.s)]

\* state of decompress after one iteration of its loop
Outcome(d, i, out, pc, self) == [dict |-> d, i |-> i, out |-> out, pc |-> pc, self |-> self]

\* s = rebuild_string(k); os.write(s); i = k, for the dictionary d
Emit(d, k, self) ==
    LET r == rebuild_string(d, k) IN
    IF r.st # "ok" THEN Outcome(d, di, dout, r.st, self)
    ELSE Outcome(d, k, WriteChars(dout, r.s), "run", self)

\* mutant of SelfBranch: the code decoded without the new entry
SelfBranchNoEntry(d0, k) == {Emit(d0, k, TRUE)}

\* the branch k == dictionary.size(): front() of an empty vector is
\* undefined behaviour: the process crashes or some char is read
SelfBranch(d0, k) ==
    LET r == rebuild_string(d0, di) IN
    IF r.st # "ok" THEN {Outcome(d0, di, dout, r.st, TRUE)}
    ELSE IF r.s = <<>>
         THEN {Outcome(d0, di, dout, "crash", TRUE)}
              \cup {Emit(Append(d0, <<di, b>>), k, TRUE) : b \in Char}
         ELSE {Emit(Append(d0, <<di, r.s[1]>>), k, TRUE)}

\* the branch k < dictionary.size()
KnownBranch(d0, k) ==
    LET r == rebuild_string(d0, k) IN
    IF r.st # "ok" THEN Outcome(d0, di, dout, r.st, dself)
    ELSE LET d1 == IF di # dms THEN Append(d0, <<di, r.s[1]>>) ELSE d0
         IN  Outcome(d1, k, WriteChars(dout, r.s), "run", dself)

\* the possible results of one iteration of the loop of decompress, code k
DecodeStep(d0, k) ==
    IF InvalidCode(k, d0) THEN {Outcome(d0, di, dout, "invalid_code", dself)}
    ELSE IF k = Len(d0) THEN SelfBranch(d0, k)
    ELSE {KnownBranch(d0, k)}

\* one iteration of the while loop of decompress, for the code k
DecBody(k) ==
    LET rs == DecFull(ddict)
        d0 == IF rs THEN DecResetDictionary ELSE ddict
    IN  /\ dbase' = IF rs THEN d0 ELSE dbase
        /\ dresets' = IF rs THEN Append(dresets, dpos) ELSE dresets
        /\ dpos' = dpos + 1
        /\ \E o \in DecodeStep(d0, k) :
              /\ ddict' = o.dict
              /\ di' = o.i
              /\ dout' = o.out
              /\ dpc' = o.pc
              /\ dself' = o.self
        /\ tail' = tail

\* is.read() fails at the end of the stream, having read gcount bytes:
\* if (!is.eof() || is.gcount() != 0) throw "corrupted compressed file"
DecAfterLoop(gcount) ==
    /\ dpc' = IF gcount # 0 THEN "corrupt" ELSE "done"
    /\ UNCHANGED <<ddict, di, dpos, dout, dbase, dresets, dself, tail>>

\* decompress reads the next code written by compress
DecRead ==
    /\ feed = "compress"
    /\ dpc = "run"
    /\ dpos < Len(codes)
    /\ DecBody(codes[dpos + 1])
    /\ UNCHANGED <<signedChar, feed, codes, evars, mvars>>

\* decompress finds the end of the stream written by compress
DecEof ==
    /\ feed = "compress"
    /\ dpc = "run"
    /\ epc = "done"
    /\ dpos = Len(codes)
    /\ DecAfterLoop(0)
    /\ UNCHANGED <<signedChar, feed, codes, evars, mvars>>

\* decompress reads a code of an arbitrary stream
DecReadAny(k) ==
    /\ feed = "arbitrary"
    /\ dpc = "run"
    /\ Len(codes) < MaxCodes
    /\ codes' = Append(codes, k)
    /\ DecBody(k)
    /\ UNCHANGED <<signedChar, feed, evars, mvars>>

\* decompress finds the end of an arbitrary stream
DecEofAny ==
    /\ feed = "arbitrary"
    /\ dpc = "run"
    /\ DecAfterLoop(tail)
    /\ UNCHANGED <<signedChar, feed, codes, evars, mvars>>

\* ------------------------------------------------------------ the system
\* compress and decompress before their loops
Init ==
    /\ signedChar \in BOOLEAN
    /\ feed \in {"compress", "arbitrary"}
    /\ ecover = <<>>
    /\ argc = 0
    /\ flag = "none"
    /\ mpc = "off"
    /\ input = <<>>
    /\ edict = EncResetDictionary
    /\ ebase = EncResetDictionary
    /\ ei = dms
    /\ epc = IF feed = "compress" THEN "run" ELSE "off"
    /\ codes = <<>>
    /\ eresets = <<>>
    /\ ddict = DecResetDictionary
    /\ dbase = DecResetDictionary
    /\ di = dms
    /\ dpos = 0
    /\ dout = <<>>
    /\ dpc = "run"
    /\ dresets = <<>>
    /\ dself = FALSE
    /\ tail \in IF feed = "compress" THEN {0} ELSE 0 .. (CodeWidth - 1)

Next ==
    \/ \E v \in Byte : EncStep(v)
    \/ EncEnd
    \/ DecRead
    \/ DecEof
    \/ \E k \in Code : DecReadAny(k)
    \/ DecEofAny

Spec == Init /\ [][Next]_vars

\* ------------------------------------------------------------------- main
\* argv[1] as main tells it apart
Flags == {"--compress", "--dcompress", "--other"}

\* main before its first statement; the streams are files of any content
InitMain ==
    /\ signedChar \in BOOLEAN
    /\ feed = "arbitrary"
    /\ argc \in 1 .. MaxArgc
    /\ flag \in Flags
    /\ mpc = "start"
    /\ input = <<>>
    /\ ecover = <<>>
    /\ edict = EncResetDictionary
    /\ ebase = EncResetDictionary
    /\ ei = dms
    /\ epc = "off"
    /\ codes = <<>>
    /\ eresets = <<>>
    /\ ddict = DecResetDictionary
    /\ dbase = DecResetDictionary
    /\ di = dms
    /\ dpos = 0
    /\ dout = <<>>
    /\ dpc = "off"
    /\ dresets = <<>>
    /\ dself = FALSE
    /\ tail \in 0 .. (CodeWidth - 1)

\* the argument count and the flag: if (argc < 3) ... Mode m
MainStart ==
    /\ mpc = "start"
    /\ mpc' = IF argc < 3 THEN "exit1"
              ELSE IF flag \notin {"--compress", "--dcompress"} THEN "exit1"
              ELSE "open"
    /\ UNCHANGED <<signedChar, feed, codes, evars, dvars, argc, flag>>

\* the two files are opened; argv[3] is the null pointer when argc is 3, and
\* opening it (and appending it to the message) is undefined behaviour
MainOpen(inOk, outOk) ==
    /\ mpc = "open"
    /\ IF ~inOk
       THEN mpc' = "exit1" /\ UNCHANGED <<epc, dpc>>
       ELSE IF argc = 3
       THEN mpc' \in {"crash", "exit1"} /\ UNCHANGED <<epc, dpc>>
       ELSE IF ~outOk
       THEN mpc' = "exit1" /\ UNCHANGED <<epc, dpc>>
       ELSE IF flag = "--compress"
       THEN mpc' = "compress" /\ epc' = "run" /\ dpc' = dpc
       ELSE mpc' = "decompress" /\ dpc' = "run" /\ epc' = epc
    /\ UNCHANGED <<signedChar, feed, codes, argc, flag, input, edict, ei, ebase,
                   eresets, ecover, ddict, di, dpos, dout, dbase, dresets, dself, tail>>

\* compress has returned: the sizes of the two files and the printed ratio
\* 100 - InSize * 10 / OutSize; a division by zero is undefined behaviour
MainCompressed ==
    /\ mpc = "compress"
    /\ epc \in {"done", "out_of_range"}
    /\ LET InSize  == Len(input)
           OutSize == CodeWidth * Len(codes)
       IN  IF epc = "out_of_range" THEN mpc' = "exit1"
           ELSE IF OutSize = 0 THEN mpc' \in {"crash", "exit0"}
           ELSE mpc' = "exit0"
    /\ UNCHANGED <<signedChar, feed, codes, evars, dvars, argc, flag>>

\* decompress has returned or thrown: the catch clauses of main; a walk in
\* a cycle grows its vector until the allocation throws
MainDecompressed ==
    /\ mpc = "decompress"
    /\ dpc # "run"
    /\ mpc' = IF dpc = "done" THEN "exit0"
              ELSE IF dpc = "crash" THEN "crash"
              ELSE "exit1"
    /\ UNCHANGED <<signedChar, feed, codes, evars, dvars, argc, flag>>

\* a stream fails during the operation: std::ios_base::failure is caught
MainIoFailure ==
    /\ \/ mpc = "compress" /\ epc = "run" /\ epc' = "io_failure" /\ dpc' = dpc
       \/ mpc = "decompress" /\ dpc = "run" /\ dpc' = "io_failure" /\ epc' = epc
    /\ mpc' = "exit1"
    /\ UNCHANGED <<signedChar, feed, codes, argc, flag, input, edict, ei, ebase,
                   eresets, ecover, ddict, di, dpos, dout, dbase, dresets, dself, tail>>

NextMain ==
    \/ MainStart
    \/ \E inOk \in BOOLEAN : \E outOk \in BOOLEAN : MainOpen(inOk, outOk)
    \/ \E v \in Byte : EncStep(v)
    \/ EncEnd
    \/ \E k \in Code : DecReadAny(k)
    \/ DecEofAny
    \/ MainCompressed
    \/ MainDecompressed
    \/ MainIoFailure

SpecMain == InitMain /\ [][NextMain]_vars

\* ------------------------------------------------------------ properties
Piped == feed = "compress"

\* main has ended
MainEnded == mpc \in {"exit0", "exit1", "crash"}

\* the operation main selected ran to its end without an error
Succeeded ==
    \/ flag = "--compress" /\ epc = "done"
    \/ flag = "--dcompress" /\ dpc = "done"

\* C1: decompress, reading the codes written by compress for the input x,
\* raises no error, and when it has finished it has written exactly x; this
\* includes the empty input and inputs that force dictionary resets.
RoundTrip ==
    Piped => /\ dpc \in {"run", "done"}
             /\ (dpc = "done" => dout = input)

\* C1 witness: a round trip finished after both sides reset twice
RoundTripAcrossResets ==
    /\ Piped /\ dpc = "done" /\ dout = input
    /\ Len(eresets) >= 2 /\ Len(dresets) >= 2

\* C2: a step of decompress that reads the code k ends with the invalid-code
\* error exactly when k is greater than the dictionary size taken after the
\* capacity check of that step.
InvalidCodeRule ==
    [][dpos' = dpos + 1 =>
         LET size == IF Len(ddict) = dms THEN Len(dbase') ELSE Len(ddict)
         IN  (codes'[dpos'] > size) <=> (dpc' = "invalid_code")]_vars

\* C2 witness: a code below the capacity rejected in the step that reset
InvalidCodeAfterReset ==
    /\ dpc = "invalid_code" /\ Len(dresets) >= 1
    /\ dresets[Len(dresets)] = dpos - 1 /\ codes[dpos] < dms

\* C3 (as claimed): for a stream made of the codes read so far, all of which
\* passed the validation, and a partial code after them, decompress ends
\* with the corrupted-stream error; a stream that ends on a code boundary
\* never raises it.
CorruptStreamRule ==
    /\ (tail # 0 /\ dpc \notin {"run", "invalid_code"}) => dpc = "corrupt"
    /\ (tail = 0 => dpc # "corrupt")

\* C4 (as claimed): the r-th reset of decompress comes after as many codes
\* read as compress had written at its r-th reset.
ResetAtEqualCounts ==
    Piped => \A r \in 1 .. Len(dresets) :
                 r <= Len(eresets) /\ dresets[r] = eresets[r]

\* C4 (amended): both sides have reset equally often when both have
\* finished, and decompress has read exactly one code more at its r-th
\* reset than compress had written at its r-th reset.
ResetSync ==
    Piped => /\ \A r \in 1 .. Len(dresets) :
                    r <= Len(eresets) /\ dresets[r] = eresets[r] + 1
             /\ (dpc = "done" => Len(dresets) = Len(eresets))

\* C4 witness: both sides finished after two resets each
ResetTwice == Piped /\ dpc = "done" /\ Len(dresets) = 2 /\ Len(eresets) = 2

\* for every code c below the size of the dictionary of decompress,
\* decoder[c] = (p, b) iff compress maps (p, b) to c
SameEntries ==
    \A c \in 0 .. (Len(ddict) - 1) : \A p \in Code : \A b \in Char :
        (ddict[c + 1] = <<p, b>>) <=> (MapHas(edict, <<p, b>>) /\ edict[<<p, b>>] = c)

BeforeFirstReset == eresets = <<>> /\ dresets = <<>>

\* C5 (as claimed): before the first reset, whenever decompress has read
\* all n >= 1 codes written so far, its dictionary is one entry shorter than
\* that of compress and agrees with it on every code it holds.
DictOneBehind ==
    (Piped /\ BeforeFirstReset /\ dpos >= 1 /\ dpos = Len(codes))
        => Len(ddict) = MapSize(edict) - 1 /\ SameEntries

\* C5 (amended): as claimed while compress is still reading its input; once
\* compress has written its final code at end of input, the dictionaries
\* have the same number of entries and agree on every code.
DictCorrespondence ==
    (Piped /\ BeforeFirstReset /\ dpos >= 1 /\ dpos = Len(codes))
        => /\ Len(ddict) = MapSize(edict) - (IF epc = "run" THEN 1 ELSE 0)
           /\ SameEntries

\* C5 witness: decompress has caught up with a compress that is still
\* reading and has filled its dictionary
DictOneBehindAtCapacity ==
    /\ Piped /\ BeforeFirstReset /\ dpos >= 1 /\ dpos = Len(codes)
    /\ epc = "run" /\ MapSize(edict) = dms /\ Len(ddict) = dms - 1

\* C6: both dictionaries always hold the base entries and at most dms
\* entries, and every assigned code is below the sentinel dms.
CapacityBound ==
    /\ MapSize(edict) \in AlphabetSize .. dms
    /\ Len(ddict) \in AlphabetSize .. dms
    /\ \A key \in DOMAIN edict : edict[key] \in 0 .. (dms - 1)
    /\ \A c \in Char : MapHas(edict, <<dms, c>>) /\ <<dms, c>> = ddict[c - minc + 1]

\* C6 witness: decompress holds dms entries after compress has held dms
\* entries and reset
BothReachedCapacity == Len(ddict) = dms /\ Len(eresets) >= 1 /\ MapSize(edict) > AlphabetSize

\* the dictionaries as the last reset left them: AlphabetSize entries, all
\* with prefix dms, the char c under the code CodeOf(c)
BaseIs(CodeOf(_)) ==
    /\ MapSize(ebase) = AlphabetSize
    /\ Len(dbase) = AlphabetSize
    /\ \A key \in DOMAIN ebase : key[1] = dms
    /\ \A j \in 1 .. Len(dbase) : dbase[j][1] = dms
    /\ \A v \in Byte :
          /\ MapHas(ebase, <<dms, ToChar(v)>>)
          /\ ebase[<<dms, ToChar(v)>>] = CodeOf(ToChar(v))
          /\ CodeOf(ToChar(v)) + 1 \in 1 .. Len(dbase)
          /\ dbase[CodeOf(ToChar(v)) + 1] = <<dms, ToChar(v)>>

UnsignedValue(c) == ToByte(c)
OffsetFromMin(c) == c - minc

SingleByte ==
    (Piped /\ epc = "done" /\ Len(input) = 1)
        => /\ Len(codes) = 1
           /\ codes[1] = ebase[<<dms, ToChar(input[1])>>]
           /\ (~signedChar => codes[1] = input[1])

\* C8 witness: compress has finished a one-byte input
SingleByteDone == Piped /\ epc = "done" /\ Len(input) = 1 /\ Len(codes) = 1

\* C9: compress of the empty input writes no code; decompress of the empty
\* stream writes no byte and raises no error.
EmptyInput ==
    /\ (Piped /\ epc = "done" /\ input = <<>>) => codes = <<>>
    /\ (dpc # "run" /\ codes = <<>> /\ tail = 0) => (dpc = "done" /\ dout = <<>>)

\* C9 witness: both have finished on the empty sequence
EmptyDone == Piped /\ epc = "done" /\ input = <<>> /\ dpc = "done"

IsRun(s) == \A j \in 1 .. Len(s) : s[j] = s[1]

\* C10: for a run of n > AlphabetSize copies of one byte, compress writes
\* fewer than n codes and decompress reproduces the run without error,
\* through the branch k == dictionary.size().
Repetition ==
    (Piped /\ Len(input) > AlphabetSize /\ IsRun(input))
        => /\ (epc = "done" => Len(codes) < Len(input))
           /\ dpc \in {"run", "done"}
           /\ (dpc = "done" => dout = input /\ dself)

\* C10 witness: the shortest such run decoded
RepetitionDone ==
    /\ Piped /\ dpc = "done" /\ IsRun(input) /\ Len(input) = AlphabetSize + 1
    /\ dself /\ dout = input

\* C11 (as claimed): every invocation of main ends by returning 0 or 1, and
\* returns 0 exactly when the selected operation succeeded.
CliOutcome ==
    MainEnded => /\ mpc \in {"exit0", "exit1"}
                 /\ (mpc = "exit0" <=> Succeeded)

\* the dictionary of decompress after the capacity check of the step taken
DecAfterCheck == IF Len(ddict) = dms THEN dbase' ELSE ddict

\* the dictionary of compress after the capacity check of the step taken
EncAfterCheck == IF MapSize(edict) = dms THEN ebase' ELSE edict

\* C12 (as claimed): a step of decompress that reads a code k equal to the
\* dictionary size appends (i, first char of string(i)) and writes string(i)
\* followed by its first char.
SelfReference ==
    [][(dpos' = dpos + 1 /\ codes'[dpos'] = Len(DecAfterCheck))
         => LET r == rebuild_string(DecAfterCheck, di)
            IN  /\ r.st = "ok" /\ r.s # <<>>
                /\ ddict' = Append(DecAfterCheck, <<di, r.s[1]>>)
                /\ dout' = WriteChars(dout, Append(r.s, r.s[1]))]_vars

\* C13: compress never writes the sentinel dms: every key (dms, c) is in
\* the dictionary at all times, so no miss happens while i is dms, and the
\* final flush writes i only when it is not dms.
NoSentinelWritten ==
    Piped => /\ \A j \in 1 .. Len(codes) : codes[j] # dms
             /\ \A c \in Char : MapHas(edict, <<dms, c>>)
             /\ epc # "out_of_range"
             /\ (epc = "done" /\ input = <<>> => codes = <<>>)

\* C13 witness: compress has finished a non-empty input that made it reset
FinishedAfterReset ==
    Piped /\ epc = "done" /\ codes # <<>> /\ Len(eresets) >= 1 /\ dpos = 0

\* C14 (as claimed): on any code stream decompress ends, if it fails, with
\* the invalid-code or the corrupted-stream error only.
DecoderSafe == dpc \in {"run", "done", "invalid_code", "corrupt"}

\* C15 (as claimed), for the streams whose first code is not the
\* dictionary size (the others meet the undefined front() first): the prefix
\* links of the dictionary of decompress never form a cycle, so every walk
\* of rebuild_string reaches dms.
NoPrefixCycle ==
    (codes = <<>> \/ codes[1] # AlphabetSize)
        => /\ dpc # "cycle"
           /\ \A k \in 0 .. (Len(ddict) - 1) : rebuild_string(ddict, k).st # "cycle"

\* C16: the bytes compress has read are the bytes denoted by the codes
\* written so far, each in the dictionary it was written from, followed by
\* the bytes denoted by the match code i in the current dictionary.
PendingMatch ==
    Piped => /\ epc = "run" => input = WriteChars(ecover, EncString(edict, ei))
             /\ epc = "done" => input = ecover

\* C16 witness: a match of more than one byte is pending after a reset
LongMatchAfterReset ==
    Piped /\ epc = "run" /\ Len(eresets) >= 1 /\ ei >= AlphabetSize /\ ei # dms

\* the codes of the dictionary d of compress are exactly 0 .. size - 1
Dense(d) == {d[key] : key \in DOMAIN d} = 0 .. (MapSize(d) - 1)

\* the keys a step of compress has inserted
Inserted == (DOMAIN edict') \ (DOMAIN EncAfterCheck)

\* C17: the codes of the dictionary of compress are exactly 0 .. size - 1,
\* an insertion assigns the (untruncated) number of entries before it, and
\* a step of the loop inserts exactly one entry per code it writes.
CodeAssignment ==
    [][Piped => /\ Dense(edict) /\ Dense(edict')
                /\ input' # input =>
                      /\ \A key \in Inserted : edict'[key] = MapSize(EncAfterCheck)
                      /\ MapSize(edict') = MapSize(EncAfterCheck) + Cardinality(Inserted)
                      /\ Cardinality(Inserted) = Len(codes') - Len(codes)]_vars

\* C17 witness: the last assignable code dms - 1 has been assigned after a reset
LastCodeAssigned ==
    /\ Piped /\ Len(eresets) >= 1 /\ MapSize(edict) = dms
    /\ \E key \in DOMAIN edict : edict[key] = dms - 1

\* C18: a step without a reset keeps every dictionary entry and adds at
\* most one, at the next free code; a step of compress that finds (i, c)
\* and a step of decompress that rejects its code add none.
AppendOnly ==
    [][/\ (input' # input /\ eresets' = eresets) =>
             /\ \A key \in DOMAIN edict : MapHas(edict', key) /\ edict'[key] = edict[key]
             /\ Cardinality((DOMAIN edict') \ (DOMAIN edict)) <= 1
             /\ \A key \in (DOMAIN edict') \ (DOMAIN edict) : edict'[key] = MapSize(edict)
             /\ MapHas(edict, <<ei, ToChar(input'[Len(input')])>>) => edict' = edict
       /\ (dpos' = dpos + 1 /\ dresets' = dresets) =>
             /\ Len(ddict') \in {Len(ddict), Len(ddict) + 1}
             /\ SubSeq(ddict', 1, Len(ddict)) = ddict
             /\ dpc' = "invalid_code" => ddict' = ddict]_vars

\* C18 witness: decompress has rejected a code while holding learned entries
RejectedWithEntries ==
    dpc = "invalid_code" /\ dresets = <<>> /\ Len(ddict) > AlphabetSize

\* C19: when compress resets, i is a base code and denotes the same byte
\* before and after; when decompress, reading the codes of compress,
\* resets, its i is a base code too.
PendingSurvivesReset ==
    [][/\ Len(eresets') > Len(eresets) =>
             /\ ei < AlphabetSize
             /\ EncString(edict, ei) = EncString(ebase', ei)
       /\ (Piped /\ Len(dresets') > Len(dresets)) =>
             /\ di < AlphabetSize
             /\ rebuild_string(ddict, di) = rebuild_string(dbase', di)]_vars

\* C19 witness: both sides have reset twice and decompress is still reading
BothResetTwice ==
    Piped /\ dpc = "run" /\ Len(eresets) >= 2 /\ Len(dresets) >= 2

====
